---- MODULE Spec2Model ----
(***************************************************************************)
(* Model of matrix-federation-tester (main.go): the HTTP handler           *)
(* HandleReport, JSONReport, Report, touchUpReport, asReportError and      *)
(* enumToString.  The external collaborators (LookupServer,                *)
(* FetchKeysDirect, CheckKeys, json.Marshal, the wall clock) are inputs    *)
(* chosen nondeterministically from small sets.                            *)
(***************************************************************************)
EXTENDS Integers, Sequences, FiniteSets, TLC

(***************************************************************************)
(* Bounds of the model.                                                    *)
(***************************************************************************)
MaxAddrs == 2        \* longest address list returned by discovery
MaxClock == 3        \* the clock advances at most this far within a request
MaxPasses == 2       \* passes of touchUpReport applied to one report

(***************************************************************************)
(* Program constants.                                                      *)
(***************************************************************************)
MaxUint16 == 65535
StatusOK == 200
StatusMethodNotAllowed == 405
StatusInternalServerError == 500

(***************************************************************************)
(* Small input sets.                                                       *)
(***************************************************************************)
Methods == {"GET", "OPTIONS", "POST", "HEAD"}
ServerNames == {"matrix.org"}
SNIs == {"", "sni.example"}
AddrSet == {"1.2.3.4:8448", "5.6.7.8:8448"}
HostSet == {"h1"}
Msgs == {"timeout", "refused"}

(***************************************************************************)
(* Go error values.  A native error carries its text; a ReportError holds  *)
(* the Message field; nil is the absent error.                             *)
(***************************************************************************)
Nil == [kind |-> "nil", text |-> ""]
NativeError(m) == [kind |-> "native", text |-> m]
ReportError(m) == [kind |-> "ReportError", text |-> m]

\* err.Error(): the Message of a ReportError, the text of a native error.
ErrorText(err) == err.text

NativeErrors == {NativeError(m) : m \in Msgs}
ErrVals == {Nil} \cup NativeErrors \cup {ReportError(m) : m \in Msgs}

asReportError_prefixes(err) ==
    IF err.kind # "nil" THEN ReportError("error: " \o ErrorText(err)) ELSE Nil

asReportError(err) ==
    IF err.kind # "nil" THEN ReportError(ErrorText(err)) ELSE Nil

(***************************************************************************)
(* enumToString and its tables.                                            *)
(***************************************************************************)
tlsVersions ==
    (768 :> "SSL 3.0") @@ (769 :> "TLS 1.0") @@ (770 :> "TLS 1.1") @@
    (771 :> "TLS 1.2")

tlsCipherSuites ==
    (5 :> "TLS_RSA_WITH_RC4_128_SHA") @@
    (10 :> "TLS_RSA_WITH_3DES_EDE_CBC_SHA") @@
    (47 :> "TLS_RSA_WITH_AES_128_CBC_SHA") @@
    (53 :> "TLS_RSA_WITH_AES_256_CBC_SHA") @@
    (49159 :> "TLS_ECDHE_ECDSA_WITH_RC4_128_SHA") @@
    (49161 :> "TLS_ECDHE_ECDSA_WITH_AES_128_CBC_SHA") @@
    (49162 :> "TLS_ECDHE_ECDSA_WITH_AES_256_CBC_SHA") @@
    (49169 :> "TLS_ECDHE_RSA_WITH_RC4_128_SHA") @@
    (49170 :> "TLS_ECDHE_RSA_WITH_3DES_EDE_CBC_SHA") @@
    (49171 :> "TLS_ECDHE_RSA_WITH_AES_128_CBC_SHA") @@
    (49172 :> "TLS_ECDHE_RSA_WITH_AES_256_CBC_SHA") @@
    (49199 :> "TLS_ECDHE_RSA_WITH_AES_128_GCM_SHA256") @@
    (49195 :> "TLS_ECDHE_ECDSA_WITH_AES_128_GCM_SHA256") @@
    (49196 :> "TLS_ECDHE_ECDSA_WITH_AES_256_GCM_SHA384") @@
    (49200 :> "TLS_ECDHE_RSA_WITH_AES_256_GCM_SHA384")

HexDigits ==
    <<"0", "1", "2", "3", "4", "5", "6", "7",
      "8", "9", "a", "b", "c", "d", "e", "f">>

\* fmt's %x of an unsigned value: lower-case digits, no leading zeros.
RECURSIVE FormatHex(_)
FormatHex(n) ==
    IF n < 16 THEN HexDigits[n + 1]
    ELSE FormatHex(n \div 16) \o HexDigits[(n % 16) + 1]

enumToString_decimal(names, value) ==
    IF value \in DOMAIN names THEN names[value]
    ELSE "UNKNOWN[0x" \o ToString(value) \o "]"

enumToString(names, value) ==
    IF value \in DOMAIN names THEN names[value]
    ELSE "UNKNOWN[0x" \o FormatHex(value) \o "]"


\* Lines 129-130 of Report: both labels of the CipherSummary.
CipherOf(connState) ==
    [Version |-> enumToString(tlsVersions, connState.Version),
     CipherSuite |-> enumToString(tlsCipherSuites, connState.CipherSuite)]

(***************************************************************************)
(* Results of the external collaborators.                                  *)
(***************************************************************************)
\* Finite maps (Go maps) are functions; the empty map is the empty function.
EmptyMap == <<>>

Put(m, k, v) == [x \in DOMAIN m \cup {k} |-> IF x = k THEN v ELSE m[x]]

Range(s) == {s[k] : k \in 1..Len(s)}

SeqsUpTo(S, n) == UNION {[1..k -> S] : k \in 0..n}

\* Host diagnostics of a DNSResult: a map from host name to HostResult.
HostMaps(errs) ==
    UNION {[H -> {[Error |-> e] : e \in errs}] : H \in SUBSET HostSet}

\* What LookupServer can return on success.
DNSResults ==
    {[SRVError |-> se, Hosts |-> hm, Addrs |-> as] :
        se \in {Nil, NativeError("no such host")},
        hm \in HostMaps({Nil, NativeError("no such host")}),
        as \in SeqsUpTo(AddrSet, MaxAddrs)}

Certs ==
    {[Raw |-> "der1", Subject |-> "matrix.org", Issuer |-> "ca",
      DNSNames |-> <<"matrix.org">>]}

\* What FetchKeysDirect can return on success, with the outcome CheckKeys
\* then gives for it.
ProbeResults ==
    {[keys |-> [Raw |-> "{\"server_name\":\"matrix.org\"}"],
      connState |-> [Version |-> 771, CipherSuite |-> 47,
                     PeerCertificates |-> <<CHOOSE c \in Certs : TRUE>>],
      checksOK |-> TRUE],
     [keys |-> [Raw |-> "{}"],
      connState |-> [Version |-> 772, CipherSuite |-> 4865,
                     PeerCertificates |-> <<>>],
      checksOK |-> FALSE]}

\* sha256.Sum256 as an injective tag of its input.
Sum256(raw) == <<"sha256", raw>>

\* Lines 119-128 of Report.
CertSummaries(certs) ==
    [k \in 1..Len(certs) |->
        [SubjectCommonName |-> certs[k].Subject,
         IssuerCommonName |-> certs[k].Issuer,
         SHA256Fingerprint |-> Sum256(certs[k].Raw),
         DNSNames |-> certs[k].DNSNames]]

\* matrixfederation.CheckKeys: the verified material is present only when
\* the checks are ok.
CheckKeys(serverName, t, res) ==
    [Checks |-> [AllChecksOK |-> res.checksOK],
     Ed25519VerifyKeys |-> IF res.checksOK THEN <<"ed25519:auto">> ELSE <<>>,
     SHA256TLSFingerprints |->
        IF res.checksOK
        THEN [k \in 1..Len(res.connState.PeerCertificates) |->
                 Sum256(res.connState.PeerCertificates[k].Raw)]
        ELSE <<>>]

\* Lines 118-133 of Report: the ConnectionReport of a successful probe.
ConnReportOf(serverName, t, res) ==
    LET checked == CheckKeys(serverName, t, res)
    IN  [Certificates |-> CertSummaries(res.connState.PeerCertificates),
         Cipher |-> CipherOf(res.connState),
         Keys |-> res.keys.Raw,
         Checks |-> checked.Checks,
         Ed25519VerifyKeys |-> checked.Ed25519VerifyKeys,
         SHA256TLSFingerprints |-> checked.SHA256TLSFingerprints]

NoReport == [DNSResult |-> "nil"]

\* Lines 106-110 of Report.
NewReport(dns) ==
    [DNSResult |-> dns, ConnectionReports |-> EmptyMap,
     ConnectionErrors |-> EmptyMap]

RecordError_dropped(rep, addr, e) == rep

\* Line 115 of Report.
RecordError(rep, addr, e) ==
    [rep EXCEPT !.ConnectionErrors = Put(@, addr, e)]

\* Line 134 of Report.
RecordConnection(rep, addr, connReport) ==
    [rep EXCEPT !.ConnectionReports = Put(@, addr, connReport)]

touchUpReport_skipsHosts(rep) ==
    [rep EXCEPT
        !.DNSResult.SRVError = asReportError(@),
        !.ConnectionErrors = [a \in DOMAIN @ |-> asReportError(@[a])]]

touchUpReport(rep) ==
    [rep EXCEPT
        !.DNSResult.SRVError = asReportError(@),
        !.DNSResult.Hosts =
            [h \in DOMAIN @ |-> [Error |-> asReportError(@[h].Error)]],
        !.ConnectionErrors = [a \in DOMAIN @ |-> asReportError(@[a])]]

\* encoding/json on an error value: a ReportError has the exported field
\* Message; a native error has no exported field to show; nil is null.
JSONError(e) ==
    CASE e.kind = "nil" -> <<"null">>
      [] e.kind = "ReportError" -> <<"Message", e.text>>
      [] OTHER -> <<"{}">>

\* Lines 53-59 of JSONReport: json.Marshal and json.Indent of the report.
Marshal(rep) ==
    [DNSResult |->
        [SRVError |-> JSONError(rep.DNSResult.SRVError),
         Hosts |-> [h \in DOMAIN rep.DNSResult.Hosts |->
                       [Error |-> JSONError(rep.DNSResult.Hosts[h].Error)]],
         Addrs |-> rep.DNSResult.Addrs],
     ConnectionReports |-> rep.ConnectionReports,
     ConnectionErrors |->
        [a \in DOMAIN rep.ConnectionErrors |->
            JSONError(rep.ConnectionErrors[a])]]

(***************************************************************************)
(* State of the server while it handles one request at a time.             *)
(***************************************************************************)
VARIABLES
    pc,            \* where the handler goroutine stands
    req,           \* the request: method, server_name, tls_sni
    w,             \* the response: header map, status (0 = not yet written), body
    printed,       \* what the handler wrote to standard output with fmt.Printf
    dnsResult,     \* the value LookupServer returned, as returned
    report,        \* the ServerReport under construction, or NoReport
    err,           \* the error travelling up from Report / JSONReport
    now,           \* the local 'now' of Report
    i,             \* index of the next entry of DNSResult.Addrs to probe
    clock,         \* the wall clock, relative to the arrival of the request
    result,        \* the bytes JSONReport returned
    lookupLog,     \* calls of LookupServer made for this request
    probeLog,      \* calls of FetchKeysDirect made for this request
    checkLog,      \* calls of CheckKeys made for this request
    touchUpCount,  \* runs of touchUpReport for this request
    marshalCount   \* runs of json.Marshal for this request

(***************************************************************************)
(* State of the harnesses that apply touchUpReport and the cipher          *)
(* summary to arbitrary inputs.                                            *)
(***************************************************************************)
VARIABLES
    tuOrig,        \* the report given to touchUpReport
    tuPrev,        \* the report before the latest pass
    tuCur,         \* the report after the latest pass
    tuPasses,      \* number of passes applied
    csIn,          \* a tls.ConnectionState: Version and CipherSuite
    csOut,         \* the CipherSummary built from it, or the zero value
    csDone         \* whether lines 129-130 have run

serverVars ==
    <<pc, req, w, printed, dnsResult, report, err, now, i, clock, result,
      lookupLog, probeLog, checkLog, touchUpCount, marshalCount>>

touchUpVars == <<tuOrig, tuPrev, tuCur, tuPasses>>

cipherVars == <<csIn, csOut, csDone>>

vars == <<serverVars, touchUpVars, cipherVars>>

NoRequest == [method |-> "", server_name |-> "", tls_sni |-> ""]
NoResponse == [header |-> EmptyMap, status |-> 0, body |-> <<>>]
NoDNS == [Addrs |-> <<>>]
ZeroCipher == [Version |-> "", CipherSuite |-> ""]

\* Time passes while a network call is in progress.
Tick(t) == IF t < MaxClock THEN t + 1 ELSE t

ServerIdle ==
    /\ pc = "idle"
    /\ req = NoRequest
    /\ w = NoResponse
    /\ printed = <<>>
    /\ dnsResult = NoDNS
    /\ report = NoReport
    /\ err = Nil
    /\ now = 0
    /\ i = 0
    /\ clock = 0
    /\ result = <<>>
    /\ lookupLog = <<>>
    /\ probeLog = <<>>
    /\ checkLog = <<>>
    /\ touchUpCount = 0
    /\ marshalCount = 0

TouchUpIdle ==
    /\ tuOrig = NoReport
    /\ tuPrev = NoReport
    /\ tuCur = NoReport
    /\ tuPasses = 0

CipherIdle ==
    /\ csIn = [Version |-> 0, CipherSuite |-> 0]
    /\ csOut = ZeroCipher
    /\ csDone = FALSE

Init == ServerIdle /\ TouchUpIdle /\ CipherIdle

(***************************************************************************)
(* HandleReport.                                                           *)
(***************************************************************************)
\* A request arrives; everything of the previous request has been discarded.
ReceiveRequest ==
    /\ pc \in {"idle", "responded"}
    /\ \E m \in Methods, sn \in ServerNames, sni \in SNIs :
          req' = [method |-> m, server_name |-> sn, tls_sni |-> sni]
    /\ pc' = "HandleReport"
    /\ w' = NoResponse
    /\ printed' = <<>>
    /\ dnsResult' = NoDNS
    /\ report' = NoReport
    /\ err' = Nil
    /\ now' = 0
    /\ i' = 0
    /\ clock' = 0
    /\ result' = <<>>
    /\ lookupLog' = <<>>
    /\ probeLog' = <<>>
    /\ checkLog' = <<>>
    /\ touchUpCount' = 0
    /\ marshalCount' = 0
    /\ UNCHANGED <<touchUpVars, cipherVars>>

CORSHeaders_none(h) == h

\* Lines 22-24: the unrestricted Access-Control headers.
CORSHeaders(h) ==
    Put(Put(Put(h, "Access-Control-Allow-Origin", "*"),
            "Access-Control-Allow-Methods", "GET, POST, PUT, DELETE, OPTIONS"),
        "Access-Control-Allow-Headers",
        "Origin, X-Requested-With, Content-Type, Accept")

\* net/http sends status 200 when the handler returns without WriteHeader.
Returned(resp) ==
    IF resp.status = 0 THEN [resp EXCEPT !.status = StatusOK] ELSE resp

WriteHeader(resp, code) ==
    IF resp.status = 0 THEN [resp EXCEPT !.status = code] ELSE resp

\* Lines 22-27: OPTIONS returns right after the headers.
HandleOptions ==
    /\ pc = "HandleReport"
    /\ req.method = "OPTIONS"
    /\ w' = Returned([w EXCEPT !.header = CORSHeaders(@)])
    /\ pc' = "responded"
    /\ UNCHANGED <<touchUpVars, cipherVars>>
    /\ UNCHANGED <<req, printed, dnsResult, report, err, now, i, clock, result,
                   lookupLog, probeLog, checkLog, touchUpCount, marshalCount>>

\* Lines 22-32: any method but GET and OPTIONS.
HandleUnsupportedMethod ==
    /\ pc = "HandleReport"
    /\ req.method # "OPTIONS"
    /\ req.method # "GET"
    /\ w' = Returned(WriteHeader([w EXCEPT !.header = CORSHeaders(@)],
                                 StatusMethodNotAllowed))
    /\ printed' = Append(printed, "Unsupported method.")
    /\ pc' = "responded"
    /\ UNCHANGED <<touchUpVars, cipherVars>>
    /\ UNCHANGED <<req, dnsResult, report, err, now, i, clock, result,
                   lookupLog, probeLog, checkLog, touchUpCount, marshalCount>>

\* Lines 22-35, 48, 100-101: a GET enters JSONReport and Report.
HandleGet ==
    /\ pc = "HandleReport"
    /\ req.method = "GET"
    /\ w' = [w EXCEPT !.header = CORSHeaders(@)]
    /\ pc' = "LookupServer"
    /\ UNCHANGED <<touchUpVars, cipherVars>>
    /\ UNCHANGED <<req, printed, dnsResult, report, err, now, i, clock, result,
                   lookupLog, probeLog, checkLog, touchUpCount, marshalCount>>

(***************************************************************************)
(* Report.                                                                 *)
(***************************************************************************)
LookupServerFails_noReturn ==
    /\ pc = "LookupServer"
    /\ \E e \in NativeErrors :
          /\ err' = e
          /\ lookupLog' = Append(lookupLog, [serverName |-> req.server_name,
                                              outcome |-> e])
    /\ report' = NewReport([SRVError |-> Nil, Hosts |-> EmptyMap,
                            Addrs |-> <<>>])
    /\ clock' = Tick(clock)
    /\ now' = clock'
    /\ i' = 1
    /\ pc' = "loop"
    /\ UNCHANGED <<touchUpVars, cipherVars>>
    /\ UNCHANGED <<req, w, printed, dnsResult, result,
                   probeLog, checkLog, touchUpCount, marshalCount>>

\* Lines 102-105, 49-51: discovery fails; Report and JSONReport return it.
LookupServerFails ==
    /\ pc = "LookupServer"
    /\ \E e \in NativeErrors :
          /\ err' = e
          /\ lookupLog' = Append(lookupLog, [serverName |-> req.server_name,
                                              outcome |-> e])
    /\ clock' = Tick(clock)
    /\ pc' = "RespondError"
    /\ UNCHANGED <<touchUpVars, cipherVars>>
    /\ UNCHANGED <<req, w, printed, dnsResult, report, now, i, result,
                   probeLog, checkLog, touchUpCount, marshalCount>>

\* Lines 102-111: discovery succeeds; the report is set up and 'now' sampled.
LookupServerOk ==
    /\ pc = "LookupServer"
    /\ \E d \in DNSResults :
          /\ dnsResult' = d
          /\ report' = NewReport(d)
    /\ lookupLog' = Append(lookupLog, [serverName |-> req.server_name,
                                        outcome |-> Nil])
    /\ clock' = Tick(clock)
    /\ now' = clock'
    /\ i' = 1
    /\ pc' = "loop"
    /\ UNCHANGED <<touchUpVars, cipherVars>>
    /\ UNCHANGED <<req, w, printed, err, result,
                   probeLog, checkLog, touchUpCount, marshalCount>>

ProbeCall(addr) ==
    [serverName |-> req.server_name, addr |-> addr, sni |-> req.tls_sni,
     at |-> clock]

\* The range loop of line 112 moves on whatever the probe gave.
NextIndex(k, failed) == k + 1

VerificationTime_resampled == clock'

\* Line 131: the time handed to CheckKeys.
VerificationTime == now

\* Lines 112-117: the probe of the next address fails.
FetchKeysDirectFails ==
    /\ pc = "loop"
    /\ i <= Len(report.DNSResult.Addrs)
    /\ LET addr == report.DNSResult.Addrs[i]
       IN  \E e \in NativeErrors :
              /\ probeLog' = Append(probeLog,
                                    [call |-> ProbeCall(addr), outcome |-> e])
              /\ report' = RecordError(report, addr, e)
    /\ clock' = Tick(clock)
    /\ i' = NextIndex(i, TRUE)
    /\ UNCHANGED <<touchUpVars, cipherVars>>
    /\ UNCHANGED <<pc, req, w, printed, dnsResult, err, now, result,
                   lookupLog, checkLog, touchUpCount, marshalCount>>

\* Lines 112-135: the probe of the next address succeeds.
FetchKeysDirectOk ==
    /\ pc = "loop"
    /\ i <= Len(report.DNSResult.Addrs)
    /\ clock' = Tick(clock)
    /\ LET addr == report.DNSResult.Addrs[i]
       IN  \E res \in ProbeResults :
              /\ probeLog' = Append(probeLog,
                                    [call |-> ProbeCall(addr), outcome |-> Nil])
              /\ checkLog' = Append(checkLog,
                                    [serverName |-> req.server_name,
                                     now |-> VerificationTime, addr |-> addr])
              /\ report' = RecordConnection(report, addr,
                              ConnReportOf(req.server_name, VerificationTime, res))
    /\ i' = NextIndex(i, FALSE)
    /\ UNCHANGED <<touchUpVars, cipherVars>>
    /\ UNCHANGED <<pc, req, w, printed, dnsResult, err, now, result,
                   lookupLog, touchUpCount, marshalCount>>

\* Line 113: the call of FetchKeysDirect never returns.
FetchKeysDirectHangs ==
    /\ pc = "loop"
    /\ i <= Len(report.DNSResult.Addrs)
    /\ probeLog' = Append(probeLog,
                          [call |-> ProbeCall(report.DNSResult.Addrs[i]),
                           outcome |-> [kind |-> "hang", text |-> ""]])
    /\ pc' = "hung"
    /\ UNCHANGED <<touchUpVars, cipherVars>>
    /\ UNCHANGED <<req, w, printed, dnsResult, report, err, now, i, clock,
                   result, lookupLog, checkLog, touchUpCount, marshalCount>>

\* Line 136: the loop is over; Report returns the report and no error.
ReportReturns ==
    /\ pc = "loop"
    /\ i > Len(report.DNSResult.Addrs)
    /\ pc' = "touchUpReport"
    /\ UNCHANGED <<touchUpVars, cipherVars>>
    /\ UNCHANGED <<req, w, printed, dnsResult, report, err, now, i, clock,
                   result, lookupLog, probeLog, checkLog, touchUpCount,
                   marshalCount>>

(***************************************************************************)
(* JSONReport.                                                             *)
(***************************************************************************)
\* Line 52.
TouchUp ==
    /\ pc = "touchUpReport"
    /\ report' = touchUpReport(report)
    /\ touchUpCount' = touchUpCount + 1
    /\ pc' = "Marshal"
    /\ UNCHANGED <<touchUpVars, cipherVars>>
    /\ UNCHANGED <<req, w, printed, dnsResult, err, now, i, clock, result,
                   lookupLog, probeLog, checkLog, marshalCount>>

\* Lines 53, 57-59.
MarshalOk ==
    /\ pc = "Marshal"
    /\ result' = <<[kind |-> "json", data |-> Marshal(report)]>>
    /\ marshalCount' = marshalCount + 1
    /\ pc' = "RespondOK"
    /\ UNCHANGED <<touchUpVars, cipherVars>>
    /\ UNCHANGED <<req, w, printed, dnsResult, report, err, now, i, clock,
                   lookupLog, probeLog, checkLog, touchUpCount>>

\* Lines 53-56.
MarshalFails ==
    /\ pc = "Marshal"
    /\ err' = NativeError("json: error calling MarshalJSON")
    /\ marshalCount' = marshalCount + 1
    /\ pc' = "RespondError"
    /\ UNCHANGED <<touchUpVars, cipherVars>>
    /\ UNCHANGED <<req, w, printed, dnsResult, report, now, i, clock, result,
                   lookupLog, probeLog, checkLog, touchUpCount>>

(***************************************************************************)
(* Back in HandleReport.                                                   *)
(***************************************************************************)
\* Lines 36-38: status 500; the message goes to fmt.Printf.
RespondError ==
    /\ pc = "RespondError"
    /\ w' = Returned(WriteHeader(w, StatusInternalServerError))
    /\ printed' = Append(printed,
                         "Error Generating Report: \"" \o ErrorText(err) \o "\"")
    /\ pc' = "responded"
    /\ UNCHANGED <<touchUpVars, cipherVars>>
    /\ UNCHANGED <<req, dnsResult, report, err, now, i, clock, result,
                   lookupLog, probeLog, checkLog, touchUpCount, marshalCount>>

\* Lines 39-43.
RespondOK ==
    /\ pc = "RespondOK"
    /\ w' = Returned(
              [WriteHeader([w EXCEPT !.header =
                               Put(@, "Content-Type", "application/json")],
                           StatusOK)
               EXCEPT !.body = @ \o result])
    /\ pc' = "responded"
    /\ UNCHANGED <<touchUpVars, cipherVars>>
    /\ UNCHANGED <<req, printed, dnsResult, report, err, now, i, clock, result,
                   lookupLog, probeLog, checkLog, touchUpCount, marshalCount>>

Next ==
    \/ ReceiveRequest
    \/ HandleOptions
    \/ HandleUnsupportedMethod
    \/ HandleGet
    \/ LookupServerFails
    \/ LookupServerOk
    \/ FetchKeysDirectFails
    \/ FetchKeysDirectOk
    \/ FetchKeysDirectHangs
    \/ ReportReturns
    \/ TouchUp
    \/ MarshalOk
    \/ MarshalFails
    \/ RespondError
    \/ RespondOK

Spec == Init /\ [][Next]_vars

\* The handler goroutine keeps running while it has a step to take.
FairSpec == Spec /\ WF_vars(Next)

(***************************************************************************)
(* touchUpReport applied to arbitrary reports.                             *)
(***************************************************************************)
ErrorMaps == UNION {[A -> ErrVals] : A \in SUBSET AddrSet}

SomeConnections ==
    {EmptyMap,
     [a \in {"1.2.3.4:8448"} |->
         ConnReportOf("matrix.org", 0,
                      CHOOSE res \in ProbeResults : res.checksOK)]}

Reports ==
    {[DNSResult |-> [SRVError |-> se, Hosts |-> hm,
                     Addrs |-> <<"1.2.3.4:8448", "5.6.7.8:8448">>],
      ConnectionReports |-> cr,
      ConnectionErrors |-> ce] :
        se \in ErrVals, hm \in HostMaps(ErrVals),
        cr \in SomeConnections, ce \in ErrorMaps}

TouchUpInit ==
    /\ ServerIdle
    /\ CipherIdle
    /\ tuOrig \in Reports
    /\ tuPrev = tuOrig
    /\ tuCur = tuOrig
    /\ tuPasses = 0

\* One more call of report.touchUpReport().
Normalize ==
    /\ tuPasses < MaxPasses
    /\ tuPrev' = tuCur
    /\ tuCur' = touchUpReport(tuCur)
    /\ tuPasses' = tuPasses + 1
    /\ UNCHANGED <<tuOrig, serverVars, cipherVars>>

TouchUpNext == Normalize

TouchUpSpec == TouchUpInit /\ [][TouchUpNext]_vars

(***************************************************************************)
(* The cipher summary applied to every 16-bit code.                        *)
(***************************************************************************)
ConnStates16 ==
    {[Version |-> v, CipherSuite |-> v] : v \in 0..MaxUint16}
    \cup {[Version |-> v, CipherSuite |-> c] :
             v \in DOMAIN tlsVersions, c \in DOMAIN tlsCipherSuites}

CipherInit ==
    /\ ServerIdle
    /\ TouchUpIdle
    /\ csIn \in ConnStates16
    /\ csOut = ZeroCipher
    /\ csDone = FALSE

\* Lines 129-130 of Report.
Summarize ==
    /\ ~csDone
    /\ csOut' = CipherOf(csIn)
    /\ csDone' = TRUE
    /\ UNCHANGED <<csIn, serverVars, touchUpVars>>

CipherNext == Summarize

CipherSpec == CipherInit /\ [][CipherNext]_vars

(***************************************************************************)
(* Properties.                                                             *)
(***************************************************************************)
Addrs == dnsResult.Addrs

Failed(k) == probeLog[k].outcome.kind = "native"

Succeeded(k) == probeLog[k].outcome.kind = "nil"

\* The entry of the probe log that last failed for address a.
LastFailure(a) ==
    CHOOSE k \in 1..Len(probeLog) :
        /\ probeLog[k].call.addr = a
        /\ Failed(k)
        /\ \A l \in (k + 1)..Len(probeLog) :
              ~(probeLog[l].call.addr = a /\ Failed(l))

DiscoverySucceeded ==
    /\ Len(lookupLog) = 1
    /\ lookupLog[1].outcome = Nil

DiscoveryFailed ==
    /\ Len(lookupLog) = 1
    /\ lookupLog[1].outcome # Nil

\* C1: when Report has returned, every discovered address is a key of exactly
\* one of ConnectionReports and ConnectionErrors, the key sets are disjoint
\* and together they hold as many keys as discovery resolved addresses.
C1_AddressesPartitioned ==
    pc = "touchUpReport" =>
        LET R == DOMAIN report.ConnectionReports
            E == DOMAIN report.ConnectionErrors
        IN  /\ R \cap E = {}
            /\ R \cup E = Range(Addrs)
            /\ Cardinality(R) + Cardinality(E) = Len(Addrs)

\* C2: once discovery has succeeded a failed probe is recorded under
\* ConnectionErrors[address] and the loop goes on: every entry of the address
\* list is probed and recorded, Report returns the report and no error, and
\* if every probe failed ConnectionReports is empty and ConnectionErrors
\* holds every address.
C2_ProbeFailureNeverAborts ==
    /\ pc \in {"loop", "touchUpReport"} =>
          /\ DiscoverySucceeded
          /\ err = Nil
          /\ report # NoReport
          /\ \A k \in 1..Len(probeLog) :
                Failed(k) =>
                    LET a == probeLog[k].call.addr
                    IN  /\ a \in DOMAIN report.ConnectionErrors
                        /\ report.ConnectionErrors[a] =
                              probeLog[LastFailure(a)].outcome
    /\ pc = "loop" => Len(probeLog) = i - 1
    /\ pc = "touchUpReport" =>
          /\ Len(probeLog) = Len(Addrs)
          /\ \A k \in 1..Len(Addrs) :
                /\ probeLog[k].call.addr = Addrs[k]
                /\ Addrs[k] \in DOMAIN report.ConnectionReports
                                  \cup DOMAIN report.ConnectionErrors
          /\ (\A k \in 1..Len(probeLog) : Failed(k)) =>
                /\ report.ConnectionReports = EmptyMap
                /\ DOMAIN report.ConnectionErrors = Range(Addrs)

C2_FailureThenSuccess ==
    /\ pc = "touchUpReport"
    /\ Len(Addrs) = 2
    /\ Addrs[1] # Addrs[2]
    /\ Failed(1)
    /\ Succeeded(2)
    /\ Addrs[1] \in DOMAIN report.ConnectionErrors
    /\ Addrs[2] \in DOMAIN report.ConnectionReports

\* C3: when discovery fails there is no report, no probe, no key
\* verification, no normalization and no serialization for the request, the
\* failure is what travels up, and the GET is answered with status 500.
C3_DiscoveryFailureAborts ==
    DiscoveryFailed =>
        /\ req.method = "GET"
        /\ err = lookupLog[1].outcome
        /\ report = NoReport
        /\ probeLog = <<>>
        /\ checkLog = <<>>
        /\ touchUpCount = 0
        /\ marshalCount = 0
        /\ result = <<>>
        /\ pc \in {"RespondError", "responded"}
        /\ pc = "responded" => w.status = StatusInternalServerError

C3_DiscoveryFailureAnswered ==
    /\ DiscoveryFailed
    /\ pc = "responded"
    /\ w.status = StatusInternalServerError

\* Whether string t occurs in string s.
Contains(s, t) ==
    \E a \in 1..(Len(s) - Len(t) + 1) : SubSeq(s, a, a + Len(t) - 1) = t

\* C4: when the report could not be produced for a GET the response has
\* status 500 and a plaintext body containing the failure text.
C4_ErrorBodyCarriesFailureText ==
    (pc = "responded" /\ req.method = "GET" /\ err # Nil) =>
        /\ w.status = StatusInternalServerError
        /\ \E k \in 1..Len(w.body) :
              /\ w.body[k].kind = "text"
              /\ Contains(w.body[k].data, ErrorText(err))

\* C5: a probe that never returns does not stop the build: the request is
\* eventually answered.
C5_HungProbeStillCompletes == (pc = "hung") ~> (pc = "responded")

\* The failure values of a report that has the shape of a ServerReport.
IsMessageOnly(e, orig) ==
    IF orig.kind = "nil" THEN e = Nil
    ELSE e.kind = "ReportError" /\ e.text = ErrorText(orig)

IsEncodedMessage(j, orig) ==
    IF orig.kind = "nil" THEN j = <<"null">>
    ELSE j = <<"Message", ErrorText(orig)>>

\* C6: at serialization every failure in the report is absent or a
\* message-only ReportError with the text of the original failure, the
\* encoded document shows that text, and touchUpReport has run exactly once,
\* after Report returned and before json.Marshal.
C6_OnlyMessagesReachSerialization ==
    /\ touchUpCount <= 1
    /\ pc \in {"HandleReport", "LookupServer", "loop", "hung", "touchUpReport"}
          => touchUpCount = 0 /\ marshalCount = 0
    /\ marshalCount <= 1
    /\ marshalCount = 1 => touchUpCount = 1
    /\ pc = "Marshal" =>
          /\ touchUpCount = 1
          /\ marshalCount = 0
          /\ IsMessageOnly(report.DNSResult.SRVError, dnsResult.SRVError)
          /\ DOMAIN report.DNSResult.Hosts = DOMAIN dnsResult.Hosts
          /\ \A h \in DOMAIN dnsResult.Hosts :
                IsMessageOnly(report.DNSResult.Hosts[h].Error,
                              dnsResult.Hosts[h].Error)
          /\ DOMAIN report.ConnectionErrors =
                {probeLog[k].call.addr : k \in {l \in 1..Len(probeLog) : Failed(l)}}
          /\ \A a \in DOMAIN report.ConnectionErrors :
                IsMessageOnly(report.ConnectionErrors[a],
                              probeLog[LastFailure(a)].outcome)
    /\ pc = "RespondOK" =>
          LET doc == result[1].data
          IN  /\ IsEncodedMessage(doc.DNSResult.SRVError, dnsResult.SRVError)
              /\ \A h \in DOMAIN dnsResult.Hosts :
                    IsEncodedMessage(doc.DNSResult.Hosts[h].Error,
                                     dnsResult.Hosts[h].Error)
              /\ \A a \in DOMAIN doc.ConnectionErrors :
                    IsEncodedMessage(doc.ConnectionErrors[a],
                                     probeLog[LastFailure(a)].outcome)

C6_NativeFailuresNormalized ==
    /\ pc = "Marshal"
    /\ dnsResult.SRVError.kind = "native"
    /\ \E h \in DOMAIN dnsResult.Hosts : dnsResult.Hosts[h].Error.kind = "native"
    /\ \E h \in DOMAIN report.DNSResult.Hosts :
          report.DNSResult.Hosts[h].Error.kind = "ReportError"
    /\ Cardinality(DOMAIN report.ConnectionErrors) = 2

\* The failure slots of a report, by name.
Slots(rep) ==
    {<<"SRVError">>}
    \cup {<<"Hosts", h>> : h \in DOMAIN rep.DNSResult.Hosts}
    \cup {<<"ConnectionErrors", a>> : a \in DOMAIN rep.ConnectionErrors}

SlotValue(rep, slot) ==
    CASE slot[1] = "SRVError" -> rep.DNSResult.SRVError
      [] slot[1] = "Hosts" -> rep.DNSResult.Hosts[slot[2]].Error
      [] OTHER -> rep.ConnectionErrors[slot[2]]

\* C7: a second pass of touchUpReport changes nothing; a message-only
\* failure keeps its message, an absent failure stays absent and no failure
\* slot is added or removed.
C7_TouchUpIdempotent ==
    /\ tuPasses >= 2 => tuCur = tuPrev
    /\ tuPasses >= 1 =>
          /\ Slots(tuCur) = Slots(tuOrig)
          /\ tuCur.ConnectionReports = tuOrig.ConnectionReports
          /\ tuCur.DNSResult.Addrs = tuOrig.DNSResult.Addrs
          /\ \A slot \in Slots(tuOrig) :
                LET o == SlotValue(tuOrig, slot)
                    c == SlotValue(tuCur, slot)
                IN  /\ o.kind = "ReportError" => c = o
                    /\ o.kind = "nil" => c = Nil
                    /\ o.kind = "native" =>
                          c.kind = "ReportError" /\ c.text = o.text

C7_TwoPassesOverMixedReport ==
    /\ tuPasses = 2
    /\ tuOrig.DNSResult.SRVError.kind = "native"
    /\ \E h \in DOMAIN tuOrig.DNSResult.Hosts :
          tuOrig.DNSResult.Hosts[h].Error.kind = "ReportError"
    /\ \E a, b \in DOMAIN tuOrig.ConnectionErrors :
          /\ tuOrig.ConnectionErrors[a].kind = "nil"
          /\ tuOrig.ConnectionErrors[b].kind = "native"
    /\ tuCur # tuOrig

\* The value of a string of lower-case hexadecimal digits.
HexDigitValue(c) == CHOOSE d \in 0..15 : HexDigits[d + 1] = c

IsHexDigit(c) == \E d \in 0..15 : HexDigits[d + 1] = c

RECURSIVE ParseHex(_)
ParseHex(s) ==
    IF Len(s) = 0 THEN 0
    ELSE 16 * ParseHex(SubSeq(s, 1, Len(s) - 1))
            + HexDigitValue(SubSeq(s, Len(s), Len(s)))

\* Whether label is UNKNOWN[0x<hex>] with <hex> the digits of value.
IsPlaceholderFor(label, value) ==
    /\ Len(label) >= 12
    /\ SubSeq(label, 1, 10) = "UNKNOWN[0x"
    /\ SubSeq(label, Len(label), Len(label)) = "]"
    /\ LET digits == SubSeq(label, 11, Len(label) - 1)
       IN  /\ \A k \in 1..Len(digits) : IsHexDigit(SubSeq(digits, k, k))
           /\ Len(digits) > 1 => SubSeq(digits, 1, 1) # "0"
           /\ ParseHex(digits) = value

IsLabelOf(names, value, label) ==
    /\ label # ""
    /\ IF value \in DOMAIN names THEN label = names[value]
       ELSE IsPlaceholderFor(label, value)

\* C8: for every 16-bit code the version label and the cipher suite label
\* are set: the name of the table for a code of the table, and otherwise
\* UNKNOWN[0x<hex>] whose hex digits read back as the code.
C8_EveryCodeHasALabel ==
    csDone =>
        /\ IsLabelOf(tlsVersions, csIn.Version, csOut.Version)
        /\ IsLabelOf(tlsCipherSuites, csIn.CipherSuite, csOut.CipherSuite)

C8_UnknownCodesSummarized ==
    /\ csDone
    /\ csIn.Version = MaxUint16
    /\ csIn.CipherSuite = MaxUint16
    /\ csOut.Version = "UNKNOWN[0xffff]"

AccessControlHeaders ==
    {"Access-Control-Allow-Origin", "Access-Control-Allow-Methods",
     "Access-Control-Allow-Headers"}

NothingStarted ==
    /\ lookupLog = <<>>
    /\ probeLog = <<>>
    /\ checkLog = <<>>
    /\ touchUpCount = 0
    /\ marshalCount = 0
    /\ report = NoReport

\* C9: a method other than GET and OPTIONS is answered 405 and OPTIONS with
\* a success status and no body, in both cases without any discovery, probe
\* or report build; only GET starts one; every response carries the
\* unrestricted Access-Control headers.
C9_MethodDispatch ==
    /\ req.method # "GET" => NothingStarted
    /\ pc = "responded" =>
          /\ AccessControlHeaders \subseteq DOMAIN w.header
          /\ w.header["Access-Control-Allow-Origin"] = "*"
          /\ req.method \notin {"GET", "OPTIONS"} =>
                w.status = StatusMethodNotAllowed /\ w.body = <<>>
          /\ req.method = "OPTIONS" => w.status = StatusOK /\ w.body = <<>>
          /\ req.method = "GET" =>
                /\ Len(lookupLog) = 1
                /\ w.status \in {StatusOK, StatusInternalServerError}

C9_UnsupportedMethodAnswered ==
    /\ pc = "responded"
    /\ req.method = "POST"
    /\ w.status = StatusMethodNotAllowed

\* C10: within one build the prober is called once per entry of the address
\* list, in the order of the list, always with the server name and SNI of
\* the request; no entry is probed again; every key verification gets the
\* one 'now' that was sampled before the first probe.
C10_OneProbePerEntryOneNow ==
    pc \in {"loop", "hung", "touchUpReport", "Marshal", "RespondOK"} =>
        /\ Len(probeLog) <= Len(Addrs)
        /\ pc = "loop" => Len(probeLog) = i - 1
        /\ pc \in {"touchUpReport", "Marshal", "RespondOK"} =>
              Len(probeLog) = Len(Addrs)
        /\ \A k \in 1..Len(probeLog) :
              /\ probeLog[k].call.addr = Addrs[k]
              /\ probeLog[k].call.serverName = req.server_name
              /\ probeLog[k].call.sni = req.tls_sni
              /\ now <= probeLog[k].call.at
        /\ Len(checkLog) = Cardinality({k \in 1..Len(probeLog) : Succeeded(k)})
        /\ \A c \in 1..Len(checkLog) :
              /\ checkLog[c].now = now
              /\ checkLog[c].serverName = req.server_name

C10_TwoEntriesProbedInOrder ==
    /\ pc = "touchUpReport"
    /\ Len(Addrs) = 2
    /\ Addrs[1] # Addrs[2]
    /\ req.tls_sni # ""
    /\ Failed(1)
    /\ Succeeded(2)
    /\ Len(checkLog) = 1
    /\ probeLog[2].call.at > now

====
